---- MODULE Spec2Model ----
(***************************************************************************)
(* A model of the lowering pipeline of the sage compiler:                  *)
(*   - src/asm/location.rs : the Location algebra and its composite        *)
(*     operations, each expanded to a sequence of core VM ops;             *)
(*   - src/targets/c.rs    : the C emitter (build_core / build_std) and    *)
(*     the meaning of the C statements it emits;                           *)
(*   - src/cli.rs          : the command line driver (read_file, compile,  *)
(*     write_file, cli, main).                                             *)
(***************************************************************************)
EXTENDS Integers, Sequences, FiniteSets, TLC

VARIABLES
    \* ---- the machine running an emitted op sequence
    prog,       \* the emitted VM op sequence
    pc,         \* index of the next op of prog (1-based)
    tape,       \* the tape: 0..TapeLen-1 -> cell value
    ptr,        \* the data pointer (a tape index; may lie outside the tape)
    reg,        \* the register
    refs,       \* the reference stack (saved data pointers)
    status,     \* "idle" | "run" | "done" | "fault"
    build,      \* what the build does on undefined behaviour:
                \* "any" (none met yet) | "wrap" | "trap"
    scen,       \* the composite operation being run and its operands
    start,      \* tape, ptr and refs when the operation started
    \* ---- the C emitter (build_core / build_std) at work on a program
    which,      \* "core" (build_core) | "std" (build_std)
    ops,        \* the program handed to the emitter
    pos,        \* index of the next op of ops the loop takes
    matching,   \* the stack of open blocks
    funs,       \* the stack of the open functions' numbers
    fun,        \* the number the next Function gets
    indent,     \* the indentation level (usize)
    result,     \* the statements emitted so far
    out,        \* "building" | "Ok" | "Err" | "panic"
    profile,    \* overflow checks of the emitter's build:
                \* "any" (no overflow met yet) | "debug" | "release"
    \* ---- the emitted C program at run (pc, reg and status are the machine's)
    funtab,     \* funs[]: function number -> its header's index, 0 for NULL
    calls,      \* the return addresses of the calls under way
    stdout,     \* the bytes written to standard output
    interp,     \* what the interpreter makes of the same program
    \* ---- the command line driver
    args,       \* source_type, target_type, debug
    env,        \* what the input file holds and how each stage outside fares
    stage,      \* "idle" | "read" | "compile" | "report" | "join" | "exited"
    ret,        \* what read_file, then compile, returned
    fs,         \* the files written and the number of write_file calls
    log,        \* the errors logged
    exit_status \* the exit status of the process, -1 while it runs

vmvars == <<prog, pc, tape, ptr, reg, refs, status, build, scen, start>>
emvars == <<which, ops, pos, matching, funs, fun, indent, result, out, profile>>
runvars == <<funtab, calls, stdout, interp>>
clivars == <<args, env, stage, ret, fs, log, exit_status>>

----------------------------------------------------------------------------
\* Bounds of the model

\* width of a cell's integer (long long int, 64 bits in the program)
IntBits == 4
\* number of tape cells (tape[200000] in the program)
TapeLen == 6
\* deepest nesting of Indirect / Offset around an Address
MaxDepth == 2
\* largest magnitude of an Offset
MaxOff == 1
\* longest program handed to the emitter
MaxOps == 4
\* deepest chain of calls and longest output a run is followed to
MaxCalls == 3
MaxOut == 3

Modulus == 2 ^ IntBits
MinInt == -(2 ^ (IntBits - 1))
MaxInt == (2 ^ (IntBits - 1)) - 1
Val == MinInt..MaxInt
Cells == 0..(TapeLen - 1)

\* two's complement wrap-around of an integer result
Wrap(x) == ((x - MinInt) % Modulus) + MinInt

----------------------------------------------------------------------------
\* Locations (src/asm/location.rs)

Address(k) == [kind |-> "Address", addr |-> k, loc |-> <<>>, off |-> 0]
Indirect(l) == [kind |-> "Indirect", addr |-> 0, loc |-> <<l>>, off |-> 0]
Offset(l, d) == [kind |-> "Offset", addr |-> 0, loc |-> <<l>>, off |-> d]

SP == Address(0)
TMP == Address(1)
FP == Address(2)
A == Address(3)
B == Address(4)
C == Address(5)

\* Location::offset and Location::deref
offset(l, d) == Offset(l, d)
deref(l) == Indirect(l)

\* A core VM op; n is the operand of Set and Move, 0 otherwise
Op(name, n) == [op |-> name, n |-> n]

\* VirtualMachineProgram::move_pointer appends Move(n)
move_pointer(n) == <<Op("Move", n)>>

\* to with the Indirect arm saving the pointer twice
RECURSIVE to_deref_twice(_)
to_deref_twice(l) ==
    CASE l.kind = "Address" -> move_pointer(l.addr)
      [] l.kind = "Indirect" ->
            to_deref_twice(l.loc[1]) \o <<Op("Deref", 0), Op("Refer", 0), Op("Deref", 0), Op("Deref", 0)>>
      [] l.kind = "Offset" -> to_deref_twice(l.loc[1]) \o move_pointer(l.off)

RECURSIVE to(_)
to(l) ==
    CASE l.kind = "Address" -> move_pointer(l.addr)
      [] l.kind = "Indirect" -> to(l.loc[1]) \o <<Op("Deref", 0)>>
      [] l.kind = "Offset" -> to(l.loc[1]) \o move_pointer(l.off)

\* from with the Offset arm moving forwards again instead of back
RECURSIVE from_same_sign(_)
from_same_sign(l) ==
    CASE l.kind = "Address" -> move_pointer(-(l.addr))
      [] l.kind = "Indirect" -> <<Op("Refer", 0)>> \o from_same_sign(l.loc[1])
      [] l.kind = "Offset" -> move_pointer(l.off) \o from_same_sign(l.loc[1])

RECURSIVE from(_)
from(l) ==
    CASE l.kind = "Address" -> move_pointer(-(l.addr))
      [] l.kind = "Indirect" -> <<Op("Refer", 0)>> \o from(l.loc[1])
      [] l.kind = "Offset" -> move_pointer(-(l.off)) \o from(l.loc[1])

save_to(l) == to(l) \o <<Op("Save", 0)>> \o from(l)
\* restore_from that stays on l instead of coming back
restore_from_open(l) == to(l) \o <<Op("Restore", 0)>>

restore_from(l) == to(l) \o <<Op("Restore", 0)>> \o from(l)
copy_to(l, other) == restore_from(l) \o save_to(other)
\* copy_address_to reading the pointer once it is back from l
copy_address_late(l, dst) == to(l) \o from(l) \o <<Op("Where", 0)>> \o save_to(dst)

copy_address_to(l, dst) == to(l) \o <<Op("Where", 0)>> \o from(l) \o save_to(dst)
set(l, val) == <<Op("Set", val)>> \o save_to(l)

push(l) == copy_address_to(offset(deref(SP), 1), SP) \o copy_to(l, deref(SP))
pop(l) == copy_to(deref(SP), l) \o copy_address_to(offset(deref(SP), -1), SP)

\* next stepping to the left, as prev does
next_leftwards(l, count) == copy_address_to(offset(deref(l), -count), l)

next(l, count) == copy_address_to(offset(deref(l), count), l)
prev(l, count) == copy_address_to(offset(deref(l), -count), l)

whole_int(l) ==
    to(l) \o <<Op("Restore", 0), Op("IsNonNegative", 0), Op("Save", 0)>> \o from(l)
inc(l) == to(l) \o <<Op("Restore", 0), Op("Inc", 0), Op("Save", 0)>> \o from(l)
dec(l) == to(l) \o <<Op("Restore", 0), Op("Dec", 0), Op("Save", 0)>> \o from(l)

binop(l, op, src) ==
    restore_from(l) \o to(src) \o <<Op(op, 0)>> \o from(src) \o save_to(l)
add(l, other) == binop(l, "Add", other)
sub(l, other) == binop(l, "Sub", other)
mul(l, other) == binop(l, "Mul", other)
div(l, other) == binop(l, "Div", other)
rem(l, other) == binop(l, "Rem", other)

\* not with the two values of the register exchanged
not_swapped(l) ==
    to(l) \o <<Op("Restore", 0), Op("If", 0), Op("Set", 1), Op("Else", 0),
               Op("Set", 0), Op("End", 0), Op("Save", 0)>> \o from(l)

not(l) ==
    to(l) \o <<Op("Restore", 0), Op("If", 0), Op("Set", 0), Op("Else", 0),
               Op("Set", 1), Op("End", 0), Op("Save", 0)>> \o from(l)

\* and with its two branches exchanged
and_swapped(l, src) ==
    to(l) \o <<Op("Restore", 0), Op("If", 0), Op("Set", 0), Op("Else", 0)>>
          \o from(l) \o restore_from(src) \o to(l)
          \o <<Op("End", 0), Op("Save", 0)>>
          \o from(l)

and(l, src) ==
    to(l) \o <<Op("Restore", 0), Op("If", 0)>>
          \o from(l) \o restore_from(src) \o to(l)
          \o <<Op("Else", 0), Op("Set", 0), Op("End", 0), Op("Save", 0)>>
          \o from(l)

or(l, src) ==
    to(l) \o <<Op("Restore", 0), Op("If", 0), Op("Set", 1), Op("Else", 0)>>
          \o from(l) \o restore_from(src) \o to(l)
          \o <<Op("End", 0), Op("Save", 0)>>
          \o from(l)

is_greater_than(l, src) ==
    copy_to(l, TMP) \o sub(TMP, src) \o dec(TMP) \o whole_int(TMP) \o save_to(l)
is_greater_or_equal_to(l, src) ==
    copy_to(l, TMP) \o sub(TMP, src) \o whole_int(TMP) \o save_to(l)
is_less_than(l, src) ==
    copy_to(src, TMP) \o sub(TMP, l) \o dec(TMP) \o whole_int(TMP) \o save_to(l)
is_less_or_equal_to(l, src) ==
    copy_to(src, TMP) \o sub(TMP, l) \o whole_int(TMP) \o save_to(l)

----------------------------------------------------------------------------
\* The meaning of the core ops, as the statements the C emitter lowers them to
\* (src/targets/c.rs, build_core).  A machine is a record of the variables.

\* refs[1024]
RefCap == 1024

InTape(p) == p \in Cells
\* C lets a pointer rest on any cell of tape[] and one past its end
PtrOk(p) == p \in 0..TapeLen

\* C's / and % truncate towards zero
Abs(x) == IF x < 0 THEN -x ELSE x
TruncDiv(a, b) ==
    IF (a < 0) = (b < 0) THEN Abs(a) \div Abs(b) ELSE -(Abs(a) \div Abs(b))
TruncRem(a, b) == a - (b * TruncDiv(a, b))

\* index of the Else or End that closes the block opened at prog[i];
\* stopAtElse: an Else of the block itself also closes the search
RECURSIVE Closer(_, _, _, _)
Closer(p, i, depth, stopAtElse) ==
    IF i > Len(p) THEN i
    ELSE IF p[i].op \in {"If", "While", "Function"}
         THEN Closer(p, i + 1, depth + 1, stopAtElse)
    ELSE IF p[i].op = "End"
         THEN IF depth = 0 THEN i ELSE Closer(p, i + 1, depth - 1, stopAtElse)
    ELSE IF p[i].op = "Else" /\ depth = 0 /\ stopAtElse THEN i
    ELSE Closer(p, i + 1, depth, stopAtElse)

\* reg.i <op>= ptr->i on long long int: the exact result
ArithResult(op, a, b) ==
    CASE op = "Add" -> a + b
      [] op = "Sub" -> a - b
      [] op = "Mul" -> a * b
      [] op = "Div" -> TruncDiv(a, b)
      [] op = "Rem" -> TruncRem(a, b)

Fault(m) == [m EXCEPT !.status = "fault"]
\* undefined behaviour: the build b either traps or carries on with w
Undefined(m, b, w) ==
    IF b = "trap" THEN [Fault(m) EXCEPT !.build = b] ELSE [w EXCEPT !.build = b]

\* VirtualMachineProgram::inc and ::dec add one to, or take one from, the
\* register; the cell under the pointer is not touched
IncDec(m, b) ==
    LET r == IF m.prog[m.pc].op = "Inc" THEN m.reg + 1 ELSE m.reg - 1
        w == [m EXCEPT !.reg = Wrap(r)]
    IN  IF r \in Val THEN w ELSE Undefined(m, b, w)

\* the effect of the op at m.pc on everything but pc
ExecOp(m, b) ==
    LET o == m.prog[m.pc]
        cell == m.tape[m.ptr]
    IN  CASE o.op = "Set" -> [m EXCEPT !.reg = o.n]
          [] o.op = "Save" ->
                IF InTape(m.ptr) THEN [m EXCEPT !.tape[m.ptr] = m.reg] ELSE Fault(m)
          [] o.op = "Restore" ->
                IF InTape(m.ptr) THEN [m EXCEPT !.reg = cell] ELSE Fault(m)
          [] o.op = "Move" ->
                LET w == [m EXCEPT !.ptr = m.ptr + o.n]
                IN  IF PtrOk(m.ptr) /\ PtrOk(m.ptr + o.n) THEN w
                    ELSE Undefined(m, b, w)
          [] o.op = "Where" -> [m EXCEPT !.reg = m.ptr]
          [] o.op = "Deref" ->
                IF InTape(m.ptr) /\ Len(m.refs) < RefCap
                THEN [m EXCEPT !.refs = Append(m.refs, m.ptr), !.ptr = cell]
                ELSE Fault(m)
          [] o.op = "Refer" ->
                IF Len(m.refs) > 0
                THEN [m EXCEPT !.ptr = m.refs[Len(m.refs)],
                               !.refs = SubSeq(m.refs, 1, Len(m.refs) - 1)]
                ELSE Fault(m)
          [] o.op \in {"Add", "Sub", "Mul", "Div", "Rem"} ->
                IF ~InTape(m.ptr) THEN Fault(m)
                ELSE IF o.op \in {"Div", "Rem"} /\ cell = 0
                     THEN Undefined(m, b, [m EXCEPT !.reg = 0])
                ELSE LET r == ArithResult(o.op, m.reg, cell)
                         w == [m EXCEPT !.reg = IF o.op = "Rem" /\ cell = -1
                                                 THEN 0 ELSE Wrap(r)]
                     IN  IF ArithResult(IF o.op = "Rem" THEN "Div" ELSE o.op,
                                        m.reg, cell) \in Val
                         THEN w ELSE Undefined(m, b, w)
          [] o.op \in {"Inc", "Dec"} -> IncDec(m, b)
          [] o.op = "IsNonNegative" ->
                [m EXCEPT !.reg = IF m.reg >= 0 THEN 1 ELSE 0]
          [] OTHER -> m

\* the op after the one at m.pc
NextPc(m) ==
    LET o == m.prog[m.pc]
    IN  CASE o.op = "If" ->
                IF m.reg # 0 THEN m.pc + 1
                ELSE Closer(m.prog, m.pc + 1, 0, TRUE) + 1
          [] o.op = "Else" -> Closer(m.prog, m.pc + 1, 0, FALSE) + 1
          [] OTHER -> m.pc + 1

\* one op of the machine; the run is done when pc leaves the sequence
Step(m, b) ==
    LET e == ExecOp(m, b)
        n == NextPc(m)
    IN  IF e.status = "fault" THEN e
        ELSE [e EXCEPT !.pc = n,
                       !.status = IF n > Len(m.prog) THEN "done" ELSE "run"]

\* a whole run under build b (the emitted sequences have no loop)
RECURSIVE RunVM(_, _)
RunVM(m, b) == IF m.status # "run" THEN m ELSE RunVM(Step(m, b), b)

----------------------------------------------------------------------------
\* The C emitter (src/targets/c.rs).  An emitter is a record of the locals of
\* build_core / build_std; a statement is its C text, the number printed
\* into it and the tabs before it.

UsizeMax == Modulus - 1
\* tab.repeat(n) panics (capacity overflow) once n exceeds isize::MAX
RepeatPanics(n) == n > MaxInt

Stmt(c, n, tabs) == [c |-> c, n |-> n, tabs |-> tabs]

Panic(e) == [e EXCEPT !.out = "panic"]
\* an overflowing usize subtraction panics where overflow is checked
Overflow(e, pr, w) ==
    IF pr = "debug" THEN [Panic(e) EXCEPT !.profile = pr] ELSE [w EXCEPT !.profile = pr]

Push(stack, x) == Append(stack, x)
Top(stack) == stack[Len(stack)]
Pop(stack) == SubSeq(stack, 1, Len(stack) - 1)

\* let mut matching = vec![]; let mut funs = vec![]; let mut fun = 0; ...
NewEmitter ==
    [matching |-> <<>>, funs |-> <<>>, fun |-> 0, indent |-> 1,
     result |-> <<>>, out |-> "building", profile |-> "any"]

BlockOps == {"Function", "While", "If", "Else", "End"}

\* the statement of an op that opens or closes no block, in build_core
CoreText(op) ==
    CASE op.op = "Set" -> Stmt("reg.i = {};", op.n, 0)
      [] op.op = "Call" -> Stmt("funs[reg.i]();", 0, 0)
      [] op.op = "Return" -> Stmt("return;", 0, 0)
      [] op.op = "Save" -> Stmt("*ptr = reg;", 0, 0)
      [] op.op = "Restore" -> Stmt("reg = *ptr;", 0, 0)
      [] op.op = "Move" -> Stmt("ptr += {};", op.n, 0)
      [] op.op = "Where" -> Stmt("reg.p = ptr;", 0, 0)
      [] op.op = "Deref" -> Stmt("*ref++ = ptr; ptr = ptr->p;", 0, 0)
      [] op.op = "Refer" -> Stmt("ptr = *--ref;", 0, 0)
      [] op.op = "Index" -> Stmt("reg.p += ptr->i;", 0, 0)
      [] op.op = "BitwiseNand" -> Stmt("reg.i = ~(reg.i & ptr->i);", 0, 0)
      [] op.op = "Add" -> Stmt("reg.i += ptr->i;", 0, 0)
      [] op.op = "Sub" -> Stmt("reg.i -= ptr->i;", 0, 0)
      [] op.op = "Mul" -> Stmt("reg.i *= ptr->i;", 0, 0)
      [] op.op = "Div" -> Stmt("reg.i /= ptr->i;", 0, 0)
      [] op.op = "Rem" -> Stmt("reg.i %= ptr->i;", 0, 0)
      [] op.op = "IsNonNegative" -> Stmt("reg.i = reg.i >= 0;", 0, 0)
      [] op.op = "Get" -> Stmt("reg.i = (reg.i = getchar()) == EOF? -1 : reg.i;", 0, 0)
      [] op.op = "Put" -> Stmt("putchar(reg.i);", 0, 0)

\* the number handed out last, in place of the one on the stack
last_fun(e) == e.fun - 1

\* the stack's top number goes into the table at a function's End:
\* fun = funs.pop().unwrap()
popped_fun(e) == Top(e.funs)

\* one turn of build_core's loop on op; pr is the profile an overflow meets
build_core_op(e, op, pr) ==
    LET emit(st, t) == Append(e.result, [st EXCEPT !.tabs = t])
    IN  IF op.op = "Comment" THEN e
        ELSE IF RepeatPanics(e.indent) THEN Panic(e)
        ELSE CASE op.op = "Function" ->
                    [e EXCEPT !.matching = Push(e.matching, "Function"),
                              !.funs = Push(e.funs, e.fun),
                              !.result = emit(Stmt("void f{}() {", e.fun, 0), e.indent),
                              !.fun = e.fun + 1,
                              !.indent = e.indent + 1]
               [] op.op = "While" ->
                    [e EXCEPT !.matching = Push(e.matching, "While"),
                              !.indent = e.indent + 1,
                              !.result = emit(Stmt("while (reg.i) {", 0, 0), e.indent)]
               [] op.op = "If" ->
                    [e EXCEPT !.matching = Push(e.matching, "If"),
                              !.indent = e.indent + 1,
                              !.result = emit(Stmt("if (reg.i) {", 0, 0), e.indent)]
               [] op.op = "Else" ->
                    IF e.matching # <<>> /\ Top(e.matching) = "If"
                    THEN IF e.indent = 0 THEN Panic(e)
                         ELSE [e EXCEPT !.matching = Push(Pop(e.matching), "Else"),
                                        !.result = emit(Stmt("} else {", 0, 0),
                                                        e.indent - 1)]
                    ELSE [e EXCEPT !.out = "Err", !.result = <<>>]
               [] op.op = "End" ->
                    LET i == IF e.indent = 0 THEN UsizeMax ELSE e.indent - 1
                        w == IF e.matching = <<>>
                             THEN [e EXCEPT !.indent = i,
                                            !.result = emit(Stmt("", 0, 0), e.indent)]
                             ELSE IF Top(e.matching) = "Function"
                             THEN IF e.funs = <<>> \/ RepeatPanics(i) THEN Panic(e)
                                  ELSE [e EXCEPT
                                          !.indent = i,
                                          !.matching = Pop(e.matching),
                                          !.funs = Pop(e.funs),
                                          !.result = emit(Stmt("} funs[{fun}] = f{fun};",
                                                               popped_fun(e), 0), i)]
                             ELSE [e EXCEPT !.indent = i,
                                            !.matching = Pop(e.matching),
                                            !.result = emit(Stmt("}", 0, 0), e.indent)]
                    IN  IF e.indent = 0 THEN Overflow(e, pr, w) ELSE w
               [] OTHER -> [e EXCEPT !.result = emit(CoreText(op), e.indent)]

\* the ops of StandardOp that are not core ops
StandardOnly ==
    {"StdSet", "Peek", "Poke", "StdAdd", "StdSub", "StdMul", "StdDiv", "StdRem",
     "Pow", "StdIsNonNegative", "Sin", "Cos", "Tan", "ASin", "ACos", "ATan",
     "Alloc", "Free", "ToInt", "ToFloat"}

\* the statement of a standard-only op, in build_std
StdText(op) ==
    CASE op.op = "StdSet" -> Stmt("reg.f = {:?};", op.n, 0)
      [] op.op = "Peek" -> Stmt("reg = peek();", 0, 0)
      [] op.op = "Poke" -> Stmt("poke(reg);", 0, 0)
      [] op.op = "StdAdd" -> Stmt("reg.f += ptr->f;", 0, 0)
      [] op.op = "StdSub" -> Stmt("reg.f -= ptr->f;", 0, 0)
      [] op.op = "StdMul" -> Stmt("reg.f *= ptr->f;", 0, 0)
      [] op.op = "StdDiv" -> Stmt("reg.f /= ptr->f;", 0, 0)
      [] op.op = "StdRem" -> Stmt("reg.f = fmod(reg.f, ptr->f);", 0, 0)
      [] op.op = "Pow" -> Stmt("reg.f = powf(reg.f, ptr->f);", 0, 0)
      [] op.op = "StdIsNonNegative" -> Stmt("reg.i = reg.f >= 0;", 0, 0)
      [] op.op = "Sin" -> Stmt("reg.f = sin(reg.f);", 0, 0)
      [] op.op = "Cos" -> Stmt("reg.f = cos(reg.f);", 0, 0)
      [] op.op = "Tan" -> Stmt("reg.f = tan(reg.f);", 0, 0)
      [] op.op = "ASin" -> Stmt("reg.f = asin(reg.f);", 0, 0)
      [] op.op = "ACos" -> Stmt("reg.f = acos(reg.f);", 0, 0)
      [] op.op = "ATan" -> Stmt("reg.f = atan(reg.f);", 0, 0)
      [] op.op = "Alloc" -> Stmt("reg.p = malloc(reg.i * sizeof(*ptr));", 0, 0)
      [] op.op = "Free" -> Stmt("free(reg.p);", 0, 0)
      [] op.op = "ToInt" -> Stmt("reg.i = (long long int)reg.f;", 0, 0)
      [] op.op = "ToFloat" -> Stmt("reg.f = (double)reg.i;", 0, 0)

\* one turn of build_std's loop on op
build_std_op(e, op, pr) ==
    LET emit(st, t) == Append(e.result, [st EXCEPT !.tabs = t])
        line(st) == IF RepeatPanics(e.indent) THEN Panic(e)
                    ELSE [e EXCEPT !.result = emit(st, e.indent)]
    IN  CASE op.op = "Comment" -> e
          [] op.op \in StandardOnly -> line(StdText(op))
          [] op.op = "Function" ->
                IF RepeatPanics(e.indent) THEN Panic(e)
                ELSE [e EXCEPT !.matching = Push(e.matching, "Function"),
                               !.funs = Push(e.funs, e.fun),
                               !.result = emit(Stmt("void f{}() {", e.fun, 0), e.indent),
                               !.fun = e.fun + 1,
                               !.indent = e.indent + 1]
          [] op.op = "While" ->
                IF RepeatPanics(e.indent) THEN Panic(e)
                ELSE [e EXCEPT !.matching = Push(e.matching, "While"),
                               !.result = emit(Stmt("while (reg.i) {", 0, 0), e.indent),
                               !.indent = e.indent + 1]
          [] op.op = "If" ->
                IF RepeatPanics(e.indent) THEN Panic(e)
                ELSE [e EXCEPT !.matching = Push(e.matching, "If"),
                               !.result = emit(Stmt("if (reg.i) {", 0, 0), e.indent),
                               !.indent = e.indent + 1]
          [] op.op = "Else" ->
                IF e.indent = 0 \/ RepeatPanics(e.indent - 1) THEN Panic(e)
                ELSE [e EXCEPT !.result = emit(Stmt("} else {", 0, 0), e.indent - 1)]
          [] op.op = "End" ->
                LET i == IF e.indent = 0 THEN UsizeMax ELSE e.indent - 1
                    w == IF e.matching = <<>> THEN [e EXCEPT !.indent = i]
                         ELSE IF RepeatPanics(i) THEN Panic(e)
                         ELSE IF Top(e.matching) = "Function"
                         THEN IF e.funs = <<>> THEN Panic(e)
                              ELSE [e EXCEPT
                                      !.indent = i,
                                      !.matching = Pop(e.matching),
                                      !.funs = Pop(e.funs),
                                      !.result = emit(Stmt("} funs[{fun}] = f{fun};",
                                                           popped_fun(e), 0), i)]
                         ELSE [e EXCEPT !.indent = i,
                                        !.matching = Pop(e.matching),
                                        !.result = emit(Stmt("}", 0, 0), i)]
                IN  IF e.indent = 0 THEN Overflow(e, pr, w) ELSE w
          [] op.op \in {"Get", "Put"} -> e
          [] op.op = "Move" ->
                line(IF op.n >= 0 THEN Stmt("ptr += {};", op.n, 0)
                     ELSE Stmt("ptr -= {};", -(op.n), 0))
          [] OTHER -> line(CoreText(op))

\* Ok(result + tab + "return 0;\n}")
Finish(e) == [e EXCEPT !.out = "Ok"]

\* the whole of build_core / build_std on a program
RECURSIVE Build(_, _, _, _, _)
Build(w, p, i, e, pr) ==
    IF e.out # "building" THEN e
    ELSE IF i > Len(p) THEN Finish(e)
    ELSE Build(w, p, i + 1,
               IF w = "core" THEN build_core_op(e, p[i], pr) ELSE build_std_op(e, p[i], pr),
               pr)
build_core(p) == Build("core", p, 1, NewEmitter, "debug")
build_std(p) == Build("std", p, 1, NewEmitter, "debug")

----------------------------------------------------------------------------
\* The emitted C program at run (src/targets/c.rs: the statements of
\* build_core and what C makes of them)

\* void (*funs[10000])(void)
FunCap == 10000

Opens(c) == c \in {"void f{}() {", "while (reg.i) {", "if (reg.i) {"}
Closes(c) == c \in {"}", "} funs[{fun}] = f{fun};"}

\* index of the statement whose brace closes the block entered before i
RECURSIVE CloseOf(_, _, _, _)
CloseOf(st, i, depth, stopAtElse) ==
    IF i > Len(st) THEN i
    ELSE IF Opens(st[i].c) THEN CloseOf(st, i + 1, depth + 1, stopAtElse)
    ELSE IF Closes(st[i].c)
         THEN IF depth = 0 THEN i ELSE CloseOf(st, i + 1, depth - 1, stopAtElse)
    ELSE IF st[i].c = "} else {" /\ depth = 0 /\ stopAtElse THEN i
    ELSE CloseOf(st, i + 1, depth, stopAtElse)

\* index of the statement whose brace opens the block closed at i + 1
RECURSIVE OpenOf(_, _, _)
OpenOf(st, i, depth) ==
    IF i < 1 THEN 0
    ELSE IF Closes(st[i].c) THEN OpenOf(st, i - 1, depth + 1)
    ELSE IF Opens(st[i].c)
         THEN IF depth = 0 THEN i ELSE OpenOf(st, i - 1, depth - 1)
    ELSE OpenOf(st, i - 1, depth)

\* putchar writes its argument converted to unsigned char
Byte(x) == x % 256

\* return from the function under way; main's return ends the program
CReturn(c) ==
    IF c.calls = <<>> THEN [c EXCEPT !.status = "done"]
    ELSE [c EXCEPT !.pc = Top(c.calls), !.calls = Pop(c.calls)]

\* a read past the end of funs, or a call through a null pointer: the build
\* b either kills the program there or does whatever it does ("wild")
Wild(c, b) ==
    [c EXCEPT !.status = IF b = "trap" THEN "fault" ELSE "wild", !.build = b]

\* one statement of the program c.stmts; c.status "cut" marks a run left at
\* a bound of the model
CStep(c, b) ==
    LET st == c.stmts[c.pc]
        on == [c EXCEPT !.pc = c.pc + 1]
    IN  IF c.pc > Len(c.stmts) THEN [c EXCEPT !.status = "done"]
        ELSE CASE st.c = "reg.i = {};" -> [on EXCEPT !.reg = st.n]
               [] st.c = "putchar(reg.i);" ->
                    IF Len(c.stdout) >= MaxOut THEN [c EXCEPT !.status = "cut"]
                    ELSE [on EXCEPT !.stdout = Append(c.stdout, Byte(c.reg))]
               [] st.c = "void f{}() {" ->
                    [c EXCEPT !.funtab = [k \in DOMAIN c.funtab |->
                                            IF k = st.n THEN c.pc ELSE c.funtab[k]],
                              !.pc = CloseOf(c.stmts, c.pc + 1, 0, FALSE) + 1]
               [] st.c = "funs[reg.i]();" ->
                    IF c.reg \notin 0..(FunCap - 1) THEN Wild(c, b)
                    ELSE IF c.reg \notin DOMAIN c.funtab \/ c.funtab[c.reg] = 0
                         THEN Wild(c, b)
                    ELSE IF Len(c.calls) >= MaxCalls THEN [c EXCEPT !.status = "cut"]
                    ELSE [c EXCEPT !.calls = Push(c.calls, c.pc + 1),
                                   !.pc = c.funtab[c.reg] + 1]
               [] st.c = "return;" -> CReturn(c)
               [] st.c = "} funs[{fun}] = f{fun};" -> CReturn(c)
               [] st.c \in {"while (reg.i) {", "if (reg.i) {"} ->
                    IF c.reg # 0 THEN on
                    ELSE [c EXCEPT !.pc = CloseOf(c.stmts, c.pc + 1, 0,
                                                 st.c = "if (reg.i) {") + 1]
               [] st.c = "} else {" ->
                    [c EXCEPT !.pc = CloseOf(c.stmts, c.pc + 1, 0, FALSE) + 1]
               [] st.c = "}" ->
                    LET o == OpenOf(c.stmts, c.pc - 1, 0)
                    IN  IF o > 0 /\ c.stmts[o].c = "while (reg.i) {"
                        THEN [c EXCEPT !.pc = o] ELSE on
               [] OTHER -> on

\* ---- the interpreter, after sections 4.1 and 4.4 of the specification

\* the pre-pass: the Function ops in textual order
RECURSIVE FunctionTable(_, _)
FunctionTable(p, i) ==
    IF i > Len(p) THEN <<>>
    ELSE (IF p[i].op = "Function" THEN <<i>> ELSE <<>>) \o FunctionTable(p, i + 1)

\* index of the op that opens the block closed at i + 1
RECURSIVE Opener(_, _, _)
Opener(p, i, depth) ==
    IF i < 1 THEN 0
    ELSE IF p[i].op = "End" THEN Opener(p, i - 1, depth + 1)
    ELSE IF p[i].op \in {"If", "While", "Function"}
         THEN IF depth = 0 THEN i ELSE Opener(p, i - 1, depth - 1)
    ELSE Opener(p, i - 1, depth)

IReturn(v) ==
    IF v.calls = <<>> THEN [v EXCEPT !.status = "done"]
    ELSE [v EXCEPT !.pc = Top(v.calls), !.calls = Pop(v.calls)]

InterpStep(p, v) ==
    LET o == p[v.pc]
        on == [v EXCEPT !.pc = v.pc + 1]
        table == FunctionTable(p, 1)
    IN  IF v.pc > Len(p) THEN [v EXCEPT !.status = "done"]
        ELSE CASE o.op = "Set" -> [on EXCEPT !.reg = o.n]
               [] o.op = "Put" ->
                    IF o.n # 0 THEN on
                    ELSE IF Len(v.stdout) >= MaxOut THEN [v EXCEPT !.status = "cut"]
                    ELSE [on EXCEPT !.stdout = Append(v.stdout, Byte(v.reg))]
               [] o.op = "Function" ->
                    [v EXCEPT !.pc = Closer(p, v.pc + 1, 0, FALSE) + 1]
               [] o.op = "Call" ->
                    IF v.reg \notin 0..(Len(table) - 1) THEN [v EXCEPT !.status = "fault"]
                    ELSE IF Len(v.calls) >= MaxCalls THEN [v EXCEPT !.status = "cut"]
                    ELSE [v EXCEPT !.calls = Push(v.calls, v.pc + 1),
                                   !.pc = table[v.reg + 1] + 1]
               [] o.op = "Return" -> IReturn(v)
               [] o.op \in {"While", "If"} ->
                    IF v.reg # 0 THEN on
                    ELSE [v EXCEPT !.pc = Closer(p, v.pc + 1, 0, o.op = "If") + 1]
               [] o.op = "Else" -> [v EXCEPT !.pc = Closer(p, v.pc + 1, 0, FALSE) + 1]
               [] o.op = "End" ->
                    LET b == Opener(p, v.pc - 1, 0)
                    IN  IF b > 0 /\ p[b].op = "Function" THEN IReturn(v)
                        ELSE IF b > 0 /\ p[b].op = "While" THEN [v EXCEPT !.pc = b]
                        ELSE on
               [] OTHER -> on

\* the run of the interpreter, followed for at most fuel ops
RECURSIVE InterpRun(_, _, _)
InterpRun(p, v, fuel) ==
    IF v.status # "run" THEN v
    ELSE IF fuel = 0 THEN [v EXCEPT !.status = "cut"]
    ELSE InterpRun(p, InterpStep(p, v), fuel - 1)

Interpret(p) ==
    InterpRun(p, [pc |-> 1, reg |-> 0, calls |-> <<>>, stdout |-> <<>>, status |-> "run"],
              16 * (MaxOps + 1))

----------------------------------------------------------------------------
\* The command line driver (src/cli.rs)

SourceTypes == {"Sage", "LowIR", "CoreASM", "StdASM", "CoreVM", "StdVM"}
TargetTypes == {"Run", "CoreASM", "StdASM", "CoreVM", "StdVM", "MyOS", "C", "X86"}

\* Result<T, Error>
Ok(v) == [ok |-> TRUE, val |-> v]
Err(e) == [ok |-> FALSE, val |-> e]

\* enum Error; of is the error WithSourceCode wraps, located says that a
\* LirError is Annotated with a source location
Error(kind) == [kind |-> kind, of |-> "none", located |-> FALSE]
LirError(located) == [kind |-> "LirError", of |-> "none", located |-> located]

\* Error::annotate_with_source
annotate_with_source(e) ==
    IF e.kind = "LirError" /\ e.located
    THEN [kind |-> "WithSourceCode", of |-> "LirError", located |-> TRUE]
    ELSE e

\* Result<CoreProgram, StandardProgram>: Ok for "Core", Err for "Std"
Program(variant, o) == [variant |-> variant, ops |-> o.ops]

\* the parsers: an error, or the program of the file in its variant
parse_vm(o) ==
    IF o.parse = "err" THEN Err(Error("Parse")) ELSE Ok(Program(o.variant, o))
parse_asm(o) ==
    IF o.parse = "err" THEN Err(Error("Parse")) ELSE Ok(Program(o.variant, o))
\* parse_lir(src)?.compile() and parse_frontend(&src, filename)?.compile()
compile_lir(o) ==
    IF o.parse = "err" THEN Err(Error("Parse"))
    ELSE IF o.lir = "err" THEN Err(LirError(FALSE))
    ELSE IF o.lir = "located" THEN Err(LirError(TRUE))
    ELSE Ok(Program(o.variant, o))

\* prog.assemble(call_stack_size).map_err(Error::AsmError)?, the variant kept
assemble(p, o) == IF o.asm = "err" THEN Err(Error("AsmError")) ELSE Ok(p)

InvalidSource == Err(Error("InvalidSource"))

\* compile_source_to_vm with the core sources taking a program of either variant
compile_source_to_vm_lenient(src_type, o) ==
    CASE src_type \in {"StdVM", "CoreVM"} -> parse_vm(o)
      [] src_type \in {"StdASM", "CoreASM"} ->
            LET r == parse_asm(o)
            IN  IF ~r.ok THEN r ELSE assemble(r.val, o)
      [] src_type = "LowIR" ->
            LET r == compile_lir(o)
            IN  IF ~r.ok THEN r ELSE assemble(r.val, o)
      [] src_type = "Sage" ->
            LET r == compile_lir(o)
            IN  IF ~r.ok THEN Err(annotate_with_source(r.val))
                ELSE assemble(r.val, o)

compile_source_to_vm(src_type, o) ==
    CASE src_type = "StdVM" -> parse_vm(o)
      [] src_type = "CoreVM" ->
            LET r == parse_vm(o)
            IN  IF ~r.ok THEN r
                ELSE IF r.val.variant = "Core" THEN r ELSE InvalidSource
      [] src_type = "StdASM" ->
            LET r == parse_asm(o)
            IN  IF ~r.ok THEN r ELSE assemble(r.val, o)
      [] src_type = "CoreASM" ->
            LET r == parse_asm(o)
            IN  IF ~r.ok THEN r
                ELSE IF r.val.variant = "Core" THEN assemble(r.val, o)
                ELSE InvalidSource
      [] src_type = "LowIR" ->
            LET r == compile_lir(o)
            IN  IF ~r.ok THEN r ELSE assemble(r.val, o)
      [] src_type = "Sage" ->
            LET r == compile_lir(o)
            IN  IF ~r.ok THEN Err(annotate_with_source(r.val))
                ELSE assemble(r.val, o)

\* compile_source_to_asm with a virtual machine source read back as assembly
compile_source_to_asm_lifting(src_type, o) ==
    CASE src_type = "StdASM" -> parse_asm(o)
      [] src_type = "CoreASM" ->
            LET r == parse_asm(o)
            IN  IF ~r.ok THEN r
                ELSE IF r.val.variant = "Core" THEN r ELSE InvalidSource
      [] src_type = "LowIR" -> compile_lir(o)
      [] src_type = "Sage" ->
            LET r == compile_lir(o)
            IN  IF ~r.ok THEN Err(annotate_with_source(r.val)) ELSE r
      [] src_type \in {"CoreVM", "StdVM"} -> parse_vm(o)

compile_source_to_asm(src_type, o) ==
    CASE src_type = "StdASM" -> parse_asm(o)
      [] src_type = "CoreASM" ->
            LET r == parse_asm(o)
            IN  IF ~r.ok THEN r
                ELSE IF r.val.variant = "Core" THEN r ELSE InvalidSource
      [] src_type = "LowIR" -> compile_lir(o)
      [] src_type = "Sage" ->
            LET r == compile_lir(o)
            IN  IF ~r.ok THEN Err(annotate_with_source(r.val)) ELSE r
      [] src_type \in {"CoreVM", "StdVM"} -> InvalidSource

\* what compile hands back: its result (or a panic) and the file system
Returned(r, f) == [ret |-> r, fs |-> f, panicked |-> FALSE]
Panicked(f) == [ret |-> Err(Error("panic")), fs |-> f, panicked |-> TRUE]

\* write(file, contents).map_err(Error::IO)
write_file(f, file, contents, o) ==
    IF o.write = "err"
    THEN Returned(Err(Error("IO")), [f EXCEPT !.writes = f.writes + 1])
    ELSE Returned(Ok("unit"),
                  [files |-> f.files \cup {[file |-> file, contents |-> contents]},
                   writes |-> f.writes + 1])

\* the interpreters, on the program of either variant
run_interpreter(o) ==
    IF o.interp = "err" THEN Err(Error("InterpreterError")) ELSE Ok("unit")

\* targets::C on the flattened program; the result of the build, or a panic
build_c(p) ==
    LET e == IF p.variant = "Core" THEN build_core(p.ops) ELSE build_std(p.ops)
    IN  CASE e.out = "Ok" -> Returned(Ok("C"), 0)
          [] e.out = "Err" -> Returned(Err("Unexpected else"), 0)
          [] OTHER -> Panicked(0)

\* targets::MyOS and targets::X86
build_other(o) ==
    IF o.build = "err" THEN Returned(Err("build"), 0) ELSE Returned(Ok("source"), 0)

\* write_built with the file opened before the result of the build is looked at
write_built_eager(f, file, built, o) ==
    LET w == write_file(f, file, "", o)
    IN  IF built.panicked THEN Panicked(f)
        ELSE IF ~built.ret.ok THEN Returned(Err(Error("BuildError")), w.fs)
        ELSE write_file(f, file, built.ret.val, o)

\* write_file(name, build(..).map_err(Error::BuildError)?)?: the argument is
\* evaluated, and its error returned, before write_file is called
write_built(f, file, built, o) ==
    IF built.panicked THEN Panicked(f)
    ELSE IF ~built.ret.ok THEN Returned(Err(Error("BuildError")), f)
    ELSE write_file(f, file, built.ret.val, o)

Text(form, p, debug) == [form |-> form, variant |-> p.variant, pretty |-> debug]

\* the arm of compile for the core targets, with the Err(_) arm written out
\* like the standard targets' ("we don't care")
core_target_lenient(f, file, form, r, debug, o) ==
    IF ~r.ok THEN Returned(r, f)
    ELSE write_file(f, file, Text(form, r.val, debug), o)

\* the arms of compile for TargetType::CoreVM and TargetType::CoreASM
core_target(f, file, form, r, debug, o) ==
    IF ~r.ok THEN Returned(r, f)
    ELSE IF r.val.variant = "Core" THEN write_file(f, file, Text(form, r.val, debug), o)
    ELSE Returned(InvalidSource, f)

\* the arms of compile for TargetType::StdVM and TargetType::StdASM
std_target(f, file, form, r, debug, o) ==
    IF ~r.ok THEN Returned(r, f)
    ELSE write_file(f, file, Text(form, r.val, debug), o)

compile(src_type, target, debug, o, f) ==
    LET vm == compile_source_to_vm(src_type, o)
        asm == compile_source_to_asm(src_type, o)
    IN  CASE target = "Run" ->
                IF ~vm.ok THEN Returned(vm, f) ELSE Returned(run_interpreter(o), f)
          [] target = "MyOS" ->
                IF ~vm.ok THEN Returned(vm, f) ELSE write_built(f, ".c", build_other(o), o)
          [] target = "C" ->
                IF ~vm.ok THEN Returned(vm, f) ELSE write_built(f, ".c", build_c(vm.val), o)
          [] target = "X86" ->
                IF ~vm.ok THEN Returned(vm, f) ELSE write_built(f, ".s", build_other(o), o)
          [] target = "CoreVM" -> core_target(f, ".vm.sg", "vm", vm, debug, o)
          [] target = "StdVM" -> std_target(f, ".vm.sg", "vm", vm, debug, o)
          [] target = "CoreASM" -> core_target(f, ".asm.sg", "asm", asm, debug, o)
          [] target = "StdASM" -> std_target(f, ".asm.sg", "asm", asm, debug, o)

\* read_to_string(name).map_err(Error::IO)
read_file(o) == IF o.read = "err" THEN Err(Error("IO")) ELSE Ok("contents")

\* the driver is not running
IdleCli ==
    /\ args = [source_type |-> "Sage", target_type |-> "Run", debug |-> FALSE]
    /\ env = <<>>
    /\ stage = "idle"
    /\ ret = Ok("unit")
    /\ fs = [files |-> {}, writes |-> 0]
    /\ log = <<>>
    /\ exit_status = -1

----------------------------------------------------------------------------
\* Running one composite operation of Location on the machine

\* the cell a location designates on tape t, seen from cell 0
RECURSIVE CellOf(_, _)
CellOf(l, t) ==
    CASE l.kind = "Address" -> l.addr
      [] l.kind = "Offset" -> CellOf(l.loc[1], t) + l.off
      [] l.kind = "Indirect" ->
            IF CellOf(l.loc[1], t) \in DOMAIN t THEN t[CellOf(l.loc[1], t)] ELSE -1

UnaryOps == {"to_from", "save_to", "restore_from", "push", "pop", "inc", "dec",
             "not", "whole_int"}
CountOps == {"set", "next", "prev", "next_prev", "next_store"}
\* the value stored through the pointer after a next
Stored == MinInt + 2
Comparisons == {"is_greater_than", "is_greater_or_equal_to",
                "is_less_than", "is_less_or_equal_to"}
BinaryOps == {"copy_to", "copy_address_to", "add", "sub", "mul", "div", "rem",
              "and", "or", "push_pop"} \cup Comparisons

Scenario(name, l, s, n) == [name |-> name, l |-> l, s |-> s, n |-> n]

\* the op sequence the operation sc.name of location sc.l emits
Emit(sc) ==
    CASE sc.name = "to_from" -> to(sc.l) \o from(sc.l)
      [] sc.name = "save_to" -> save_to(sc.l)
      [] sc.name = "restore_from" -> restore_from(sc.l)
      [] sc.name = "push" -> push(sc.l)
      [] sc.name = "pop" -> pop(sc.l)
      [] sc.name = "push_pop" -> push(sc.l) \o pop(sc.s)
      [] sc.name = "inc" -> inc(sc.l)
      [] sc.name = "dec" -> dec(sc.l)
      [] sc.name = "not" -> not(sc.l)
      [] sc.name = "whole_int" -> whole_int(sc.l)
      [] sc.name = "set" -> set(sc.l, sc.n)
      [] sc.name = "next" -> next(sc.l, sc.n)
      [] sc.name = "prev" -> prev(sc.l, sc.n)
      [] sc.name = "next_prev" -> next(sc.l, sc.n) \o prev(sc.l, sc.n)
      [] sc.name = "next_store" -> next(sc.l, sc.n) \o set(deref(sc.l), Stored)
      [] sc.name = "copy_to" -> copy_to(sc.l, sc.s)
      [] sc.name = "copy_address_to" -> copy_address_to(sc.l, sc.s)
      [] sc.name = "add" -> add(sc.l, sc.s)
      [] sc.name = "sub" -> sub(sc.l, sc.s)
      [] sc.name = "mul" -> mul(sc.l, sc.s)
      [] sc.name = "div" -> div(sc.l, sc.s)
      [] sc.name = "rem" -> rem(sc.l, sc.s)
      [] sc.name = "and" -> and(sc.l, sc.s)
      [] sc.name = "or" -> or(sc.l, sc.s)
      [] sc.name = "is_greater_than" -> is_greater_than(sc.l, sc.s)
      [] sc.name = "is_greater_or_equal_to" -> is_greater_or_equal_to(sc.l, sc.s)
      [] sc.name = "is_less_than" -> is_less_than(sc.l, sc.s)
      [] sc.name = "is_less_or_equal_to" -> is_less_or_equal_to(sc.l, sc.s)

\* the machine about to run operation sc from the state st
Machine(sc, st, b) ==
    [prog |-> Emit(sc), pc |-> 1, tape |-> st.tape, ptr |-> st.ptr,
     reg |-> st.reg, refs |-> st.refs, status |-> "run", build |-> b]

Cur ==
    [prog |-> prog, pc |-> pc, tape |-> tape, ptr |-> ptr, reg |-> reg,
     refs |-> refs, status |-> status, build |-> build]

Load(m) ==
    /\ prog' = m.prog
    /\ pc' = m.pc
    /\ tape' = m.tape
    /\ ptr' = m.ptr
    /\ reg' = m.reg
    /\ refs' = m.refs
    /\ status' = m.status
    /\ build' = m.build

CurEmitter ==
    [matching |-> matching, funs |-> funs, fun |-> fun, indent |-> indent,
     result |-> result, out |-> out, profile |-> profile]

LoadedEmitter(e) ==
    /\ matching = e.matching
    /\ funs = e.funs
    /\ fun = e.fun
    /\ indent = e.indent
    /\ result = e.result
    /\ out = e.out
    /\ profile = e.profile

LoadEmitter(e) ==
    /\ matching' = e.matching
    /\ funs' = e.funs
    /\ fun' = e.fun
    /\ indent' = e.indent
    /\ result' = e.result
    /\ out' = e.out
    /\ profile' = e.profile

\* no C program runs
IdleRun ==
    /\ funtab = <<>>
    /\ calls = <<>>
    /\ stdout = <<>>
    /\ interp = [stdout |-> <<>>, status |-> "idle"]

\* ---- the inputs

Offs == (-MaxOff)..MaxOff

RECURSIVE LocsOfDepth(_)
LocsOfDepth(d) ==
    IF d = 0 THEN {SP, A}
    ELSE LET inner == LocsOfDepth(d - 1)
         IN  {Indirect(l) : l \in inner}
                \cup {Offset(l, o) : l \in inner, o \in Offs \ {0}}

Locs == UNION {LocsOfDepth(d) : d \in 0..MaxDepth}

\* a tape whose cells all hold addresses of cells, and one with wild pointers
PointerTape == [c \in Cells |-> (c + 2) % TapeLen]
WildTape == [c \in Cells |-> IF c = 0 THEN TapeLen - 1 ELSE IF c = 3 THEN -1 ELSE 2]

NestStarts ==
    { [tape |-> PointerTape, ptr |-> 0, reg |-> 1, refs |-> <<>>],
      [tape |-> WildTape, ptr |-> 0, reg |-> 0, refs |-> <<>>],
      [tape |-> PointerTape, ptr |-> 1, reg |-> 0, refs |-> <<2>>] }

\* values at the edges of the integer range and around zero
EdgeVals == {MinInt, -1, 0, 1, MaxInt}

\* SP points into the tape's last cells, FP at A; A and B hold the operands
ValueTape(a, b) ==
    [c \in Cells |-> CASE c = 0 -> TapeLen - 2
                       [] c = 2 -> 3
                       [] c = 3 -> a
                       [] c = 4 -> b
                       [] OTHER -> 0]

FlatPairs ==
    { <<A, B>>, <<B, A>>, <<A, A>>, <<A, TMP>>, <<TMP, B>>,
      <<deref(FP), B>>, <<A, offset(A, 1)>> }

NestScenarios ==
    {Scenario(o, l, B, 0) : o \in UnaryOps, l \in Locs}
        \cup {Scenario(o, l, B, n) : o \in CountOps, l \in Locs, n \in {1}}
        \cup {Scenario(o, l, deref(FP), 0) : o \in BinaryOps, l \in Locs}

ValueScenarios ==
    {Scenario(o, p[1], p[2], 0) : o \in BinaryOps \cup UnaryOps, p \in FlatPairs}
        \cup {Scenario(o, p[1], p[2], n) : o \in CountOps, p \in FlatPairs, n \in Offs}

InitLoc ==
    /\ \/ /\ scen \in NestScenarios
          /\ start \in NestStarts
       \/ /\ scen \in ValueScenarios
          /\ \E a \in EdgeVals, b \in EdgeVals :
                start = [tape |-> ValueTape(a, b), ptr |-> 0, reg |-> 0, refs |-> <<>>]
    /\ prog = Emit(scen)
    /\ pc = 1
    /\ tape = start.tape
    /\ ptr = start.ptr
    /\ reg = start.reg
    /\ refs = start.refs
    /\ status = "run"
    /\ build = "any"
    /\ which = "core"
    /\ ops = <<>>
    /\ pos = 1
    /\ LoadedEmitter(NewEmitter)
    /\ IdleRun
    /\ IdleCli

\* ---- the steps: one action per kind of op

Builds == IF build = "any" THEN {"trap", "wrap"} ELSE {build}

\* the machine is at an op of one of these kinds
At(kinds) == status = "run" /\ prog[pc].op \in kinds

\* the machine executes its op
Stepped == \E b \in Builds : Load(Step(Cur, b))

ExecSet ==
    /\ At({"Set"})
    /\ Stepped
    /\ UNCHANGED <<scen, start, emvars, runvars, clivars>>

ExecSave ==
    /\ At({"Save"})
    /\ Stepped
    /\ UNCHANGED <<scen, start, emvars, runvars, clivars>>

ExecRestore ==
    /\ At({"Restore"})
    /\ Stepped
    /\ UNCHANGED <<scen, start, emvars, runvars, clivars>>

ExecMove ==
    /\ At({"Move"})
    /\ Stepped
    /\ UNCHANGED <<scen, start, emvars, runvars, clivars>>

ExecWhere ==
    /\ At({"Where"})
    /\ Stepped
    /\ UNCHANGED <<scen, start, emvars, runvars, clivars>>

ExecDeref ==
    /\ At({"Deref"})
    /\ Stepped
    /\ UNCHANGED <<scen, start, emvars, runvars, clivars>>

ExecRefer ==
    /\ At({"Refer"})
    /\ Stepped
    /\ UNCHANGED <<scen, start, emvars, runvars, clivars>>

ExecArith ==
    /\ At({"Add", "Sub", "Mul", "Div", "Rem"})
    /\ Stepped
    /\ UNCHANGED <<scen, start, emvars, runvars, clivars>>

ExecIncDec ==
    /\ At({"Inc", "Dec"})
    /\ Stepped
    /\ UNCHANGED <<scen, start, emvars, runvars, clivars>>

ExecIsNonNegative ==
    /\ At({"IsNonNegative"})
    /\ Stepped
    /\ UNCHANGED <<scen, start, emvars, runvars, clivars>>

ExecIf ==
    /\ At({"If"})
    /\ Stepped
    /\ UNCHANGED <<scen, start, emvars, runvars, clivars>>

ExecElse ==
    /\ At({"Else"})
    /\ Stepped
    /\ UNCHANGED <<scen, start, emvars, runvars, clivars>>

ExecEnd ==
    /\ At({"End"})
    /\ Stepped
    /\ UNCHANGED <<scen, start, emvars, runvars, clivars>>

NextLoc ==
    \/ ExecSet
    \/ ExecSave
    \/ ExecRestore
    \/ ExecMove
    \/ ExecWhere
    \/ ExecDeref
    \/ ExecRefer
    \/ ExecArith
    \/ ExecIncDec
    \/ ExecIsNonNegative
    \/ ExecIf
    \/ ExecElse
    \/ ExecEnd

vars == <<vmvars, emvars, runvars, clivars>>

SpecLoc == InitLoc /\ [][NextLoc]_vars

----------------------------------------------------------------------------
\* The emitter at work: one action per arm of the loop of build_core and
\* build_std

\* all sequences over alphabet of length at most n
RECURSIVE SeqsUpTo(_, _)
SeqsUpTo(alphabet, n) ==
    IF n = 0 THEN {<<>>}
    ELSE LET shorter == SeqsUpTo(alphabet, n - 1)
         IN  shorter \cup {Append(p, x) : p \in shorter, x \in alphabet}

CoreAlphabet ==
    {Op("Function", 0), Op("While", 0), Op("If", 0), Op("Else", 0), Op("End", 0),
     Op("Put", 1), Op("Comment", 0)}
StdAlphabet == CoreAlphabet \cup {Op("Peek", 0)}

\* the machine does not run while the emitter works
IdleMachine ==
    /\ prog = <<>>
    /\ pc = 1
    /\ tape = [c \in Cells |-> 0]
    /\ ptr = 0
    /\ reg = 0
    /\ refs = <<>>
    /\ status = "idle"
    /\ build = "any"
    /\ scen = Scenario("none", SP, SP, 0)
    /\ start = [tape |-> [c \in Cells |-> 0], ptr |-> 0, reg |-> 0, refs |-> <<>>]

InitEmit ==
    /\ \/ which = "core" /\ ops \in SeqsUpTo(CoreAlphabet, MaxOps)
       \/ which = "std" /\ ops \in SeqsUpTo(StdAlphabet, MaxOps)
    /\ pos = 1
    /\ LoadedEmitter(NewEmitter)
    /\ IdleMachine
    /\ IdleRun
    /\ IdleCli

Profiles == IF profile = "any" THEN {"debug", "release"} ELSE {profile}

\* the loop is at an op of one of these kinds
Taking(kinds) == out = "building" /\ pos <= Len(ops) /\ ops[pos].op \in kinds

\* the loop body runs on the op
Emitted ==
    /\ \E pr \in Profiles :
          LoadEmitter(IF which = "core" THEN build_core_op(CurEmitter, ops[pos], pr)
                      ELSE build_std_op(CurEmitter, ops[pos], pr))
    /\ pos' = pos + 1
    /\ UNCHANGED <<which, ops, vmvars, runvars, clivars>>

EmitComment ==
    /\ Taking({"Comment"})
    /\ Emitted

EmitFunction ==
    /\ Taking({"Function"})
    /\ Emitted

EmitWhile ==
    /\ Taking({"While"})
    /\ Emitted

EmitIf ==
    /\ Taking({"If"})
    /\ Emitted

EmitElse ==
    /\ Taking({"Else"})
    /\ Emitted

EmitEnd ==
    /\ Taking({"End"})
    /\ Emitted

EmitStandard ==
    /\ Taking(StandardOnly)
    /\ Emitted

EmitPlain ==
    /\ out = "building"
    /\ pos <= Len(ops)
    /\ ops[pos].op \notin BlockOps \cup StandardOnly \cup {"Comment"}
    /\ Emitted

ReturnOk ==
    /\ out = "building"
    /\ pos > Len(ops)
    /\ LoadEmitter(Finish(CurEmitter))
    /\ UNCHANGED <<which, ops, pos, vmvars, runvars, clivars>>

NextEmit ==
    \/ EmitComment
    \/ EmitFunction
    \/ EmitWhile
    \/ EmitIf
    \/ EmitElse
    \/ EmitEnd
    \/ EmitStandard
    \/ EmitPlain
    \/ ReturnOk

SpecEmit == InitEmit /\ [][NextEmit]_vars

----------------------------------------------------------------------------
\* Properties of the Location algebra (checked under SpecLoc)

Finished == status = "done"
LCell == CellOf(scen.l, start.tape)
SCell == CellOf(scen.s, start.tape)

\* C1: pointer restoration.  Whatever the location and the composite
\* operation, and whichever If/Else branch ran, a run that completes leaves
\* the data pointer where it was when the operation started.
C1_PointerRestored == Finished => ptr = start.ptr

\* an `or` through an indirection under an offset whose Else branch ran (L
\* held zero)
C1_Witness ==
    /\ Finished
    /\ scen.name = "or"
    /\ scen.l = Indirect(Offset(A, -1))
    /\ start.tape = PointerTape
    /\ start.tape[LCell] = 0
    /\ ptr = start.ptr

\* number of ops named name in the sequence p
RECURSIVE CountOp(_, _)
CountOp(p, name) ==
    IF p = <<>> THEN 0
    ELSE (IF Head(p).op = name THEN 1 ELSE 0) + CountOp(Tail(p), name)

\* C2: indirection pairing.  to(L) followed by from(L) holds as many Refer
\* ops as Deref ops, and after it, as after every composite operation that
\* completes, the reference stack is what it was before.
C2_IndirectionPaired ==
    /\ scen.name = "to_from" => CountOp(prog, "Deref") = CountOp(prog, "Refer")
    /\ Finished => refs = start.refs

\* a doubly indirect to/from that completed over a non-empty reference stack
C2_Witness ==
    /\ Finished
    /\ scen.name = "to_from"
    /\ scen.l = Indirect(Indirect(A))
    /\ CountOp(prog, "Deref") = 2
    /\ refs = <<2>>

\* the same operation on Offset(X, a + b) in place of Offset(Offset(X, a), b)
Folded(sc) ==
    [sc EXCEPT !.l = Offset(sc.l.loc[1].loc[1], sc.l.loc[1].off + sc.l.off)]
FoldedRun ==
    RunVM(Machine(Folded(scen), start, "any"), IF build = "any" THEN "trap" ELSE build)

\* C3: offset algebra.  An operation on Offset(Offset(X, a), b) ends as the
\* same operation on Offset(X, a + b) does: same tape, same data pointer,
\* same outcome (done or fault).
C3_OffsetAlgebra ==
    (/\ status \in {"done", "fault"}
     /\ scen.l.kind = "Offset"
     /\ scen.l.loc[1].kind = "Offset")
        => /\ FoldedRun.status = status
           /\ FoldedRun.tape = tape
           /\ status = "done" => FoldedRun.ptr = ptr

\* the truth of a comparison on integers
Compare(name, a, b) ==
    CASE name = "is_greater_than" -> a > b
      [] name = "is_greater_or_equal_to" -> a >= b
      [] name = "is_less_than" -> a < b
      [] name = "is_less_or_equal_to" -> a <= b

\* C4: comparison results.  With L and S two cells other than TMP, holding
\* a and b, a comparison that completes leaves 1 in L when it is true of a
\* and b and 0 when it is not, over the whole integer range.
C4_ComparisonResult ==
    (/\ Finished
     /\ scen.name \in Comparisons
     /\ LCell \in Cells \ {1}
     /\ SCell \in Cells \ {1})
        => tape[LCell] =
              IF Compare(scen.name, start.tape[LCell], start.tape[SCell]) THEN 1 ELSE 0

----------------------------------------------------------------------------
\* Properties of the emitter (checked under SpecEmit)

\* what is open after the ops of p from i on, starting with stack open; else
\* is set by an Else that meets no If, end by an End that meets no block
RECURSIVE Nest(_, _, _)
Nest(p, i, n) ==
    IF i > Len(p) THEN n
    ELSE LET o == p[i].op
             top == IF n.open = <<>> THEN "none" ELSE Top(n.open)
         IN  Nest(p, i + 1,
                  CASE o \in {"Function", "While", "If"} ->
                          [n EXCEPT !.open = Push(n.open, o)]
                    [] o = "Else" ->
                          IF top = "If"
                          THEN [n EXCEPT !.open = Push(Pop(n.open), "Else")]
                          ELSE [n EXCEPT !.else = TRUE]
                    [] o = "End" ->
                          IF top = "none" THEN [n EXCEPT !.end = TRUE]
                          ELSE [n EXCEPT !.open = Pop(n.open)]
                    [] OTHER -> n)

Nesting(p) == Nest(p, 1, [open |-> <<>>, else |-> FALSE, end |-> FALSE])
StrayElse(p) == Nesting(p).else
Unmatched(p) == Nesting(p).end \/ Nesting(p).open # <<>>
WellNested(p) == ~StrayElse(p) /\ ~Unmatched(p)

Functions(p) == {i \in 1..Len(p) : p[i].op = "Function"}
\* the statement emitted for the op at i: every op emits one, but for the
\* comments and, in build_std, Get and Put
Emits(w, o) == o.op # "Comment" /\ (w = "std" => o.op \notin {"Get", "Put"})
StmtOf(w, p, i) == Cardinality({h \in 1..i : Emits(w, p[h])})
Registrations(k) ==
    {x \in 1..Len(result) : result[x].c = "} funs[{fun}] = f{fun};" /\ result[x].n = k}

\* C6: function numbering.  For a well-nested program both emitters open
\* the function whose Function op has k Function ops before it as fk and
\* register funs[k] = fk at the End that closes it, nested or not; each of
\* the numbers 0..n-1 is registered exactly once.
C6_FunctionNumbering ==
    (out = "Ok" /\ WellNested(ops)) =>
        /\ \A i \in Functions(ops) :
              LET k == Cardinality({h \in Functions(ops) : h < i})
                  j == Closer(ops, i + 1, 0, FALSE)
              IN  /\ result[StmtOf(which, ops, i)].c = "void f{}() {"
                  /\ result[StmtOf(which, ops, i)].n = k
                  /\ StmtOf(which, ops, j) \in Registrations(k)
        /\ \A k \in 0..(Cardinality(Functions(ops)) - 1) :
              Cardinality(Registrations(k)) = 1

\* build_std is done with a function nested in another
C6_Witness ==
    /\ out = "Ok"
    /\ which = "std"
    /\ ops = <<Op("Function", 0), Op("Function", 0), Op("End", 0), Op("End", 0)>>
    /\ Registrations(0) = {4}
    /\ Registrations(1) = {3}

\* C8: build_core returns an error, and no source, whenever its loop takes
\* an Else whose innermost open block is not an If without an Else.
C8_CoreElseRejected ==
    [][(/\ which = "core"
        /\ Taking({"Else"})
        /\ (matching = <<>> \/ Top(matching) # "If"))
            => (out' = "Err" /\ result' = <<>>)]_vars

\* C9: build_std returns an error for every program holding an Else whose
\* innermost open block is not an If.
C9_StdElseRejected ==
    (which = "std" /\ StrayElse(ops)) => out \notin {"Ok", "panic"}

\* C10: both emitters return an error for every program with an unmatched
\* block, and Ok only for properly nested programs.
C10_UnmatchedRejected ==
    /\ Unmatched(ops) => out \notin {"Ok", "panic"}
    /\ out = "Ok" => WellNested(ops)

----------------------------------------------------------------------------
\* Running the C program that build_core emits, beside the interpreter

RunAlphabet ==
    {Op("Set", 0), Op("Set", 1), Op("Put", 0), Op("Put", 1), Op("Call", 0),
     Op("Return", 0), Op("Function", 0), Op("While", 0), Op("If", 0),
     Op("Else", 0), Op("End", 0)}

CurC ==
    [stmts |-> result, pc |-> pc, reg |-> reg, funtab |-> funtab,
     calls |-> calls, stdout |-> stdout, status |-> status, build |-> build]

\* the program starts: static storage is zero, so every funs[k] is NULL
InitRun ==
    \E p \in SeqsUpTo(RunAlphabet, MaxOps) :
        /\ WellNested(p)
        /\ which = "core"
        /\ ops = p
        /\ pos = Len(p) + 1
        /\ LoadedEmitter(build_core(p))
        /\ prog = <<>>
        /\ pc = 1
        /\ tape = [c \in Cells |-> 0]
        /\ ptr = 0
        /\ reg = 0
        /\ refs = <<>>
        /\ status = "run"
        /\ build = "any"
        /\ scen = Scenario("none", SP, SP, 0)
        /\ start = [tape |-> [c \in Cells |-> 0], ptr |-> 0, reg |-> 0, refs |-> <<>>]
        /\ funtab = [k \in 0..(Cardinality(Functions(p)) - 1) |-> 0]
        /\ calls = <<>>
        /\ stdout = <<>>
        /\ interp = Interpret(p)
        /\ IdleCli

\* the statement to run is one of texts
Running(texts) ==
    /\ out = "Ok"
    /\ status = "run"
    /\ pc <= Len(result)
    /\ result[pc].c \in texts

RanC ==
    \E b \in Builds :
    LET c == CStep(CurC, b)
    IN  /\ pc' = c.pc
        /\ reg' = c.reg
        /\ funtab' = c.funtab
        /\ calls' = c.calls
        /\ stdout' = c.stdout
        /\ status' = c.status
        /\ build' = c.build
        /\ UNCHANGED <<prog, tape, ptr, refs, scen, start, emvars, interp, clivars>>

RunAssign ==
    /\ Running({"reg.i = {};"})
    /\ RanC

RunPutchar ==
    /\ Running({"putchar(reg.i);"})
    /\ RanC

RunDefinition ==
    /\ Running({"void f{}() {"})
    /\ RanC

RunCall ==
    /\ Running({"funs[reg.i]();"})
    /\ RanC

RunReturn ==
    /\ Running({"return;", "} funs[{fun}] = f{fun};"})
    /\ RanC

RunWhile ==
    /\ Running({"while (reg.i) {"})
    /\ RanC

RunIf ==
    /\ Running({"if (reg.i) {"})
    /\ RanC

RunElse ==
    /\ Running({"} else {"})
    /\ RanC

RunClose ==
    /\ Running({"}"})
    /\ RanC

\* main runs off its last statement
RunExit ==
    /\ out = "Ok"
    /\ status = "run"
    /\ pc > Len(result)
    /\ RanC

NextRun ==
    \/ RunAssign
    \/ RunPutchar
    \/ RunDefinition
    \/ RunCall
    \/ RunReturn
    \/ RunWhile
    \/ RunIf
    \/ RunElse
    \/ RunClose
    \/ RunExit

SpecRun == InitRun /\ [][NextRun]_vars

\* C5: target equivalence.  When the interpreter and the C program that
\* build_core emits both run a closed well-nested program to its end, they
\* have written the same bytes to standard output, whatever channel the
\* program's Put ops name.
C5_TargetEquivalence ==
    (status = "done" /\ interp.status = "done") => stdout = interp.stdout

\* the entry of the function numbered k: the statement of the Function op
\* with k Function ops before it
EntryOf(k) ==
    StmtOf("core", ops,
           CHOOSE i \in Functions(ops) : Cardinality({h \in Functions(ops) : h < i}) = k)

\* C7: a Call met with the register at k, one of the numbers 0..n-1 of the
\* program's n functions, takes control to the first statement of function
\* k, wherever in the run the Call is met.
C7_CallReachesFunction ==
    [][(/\ Running({"funs[reg.i]();"})
        /\ reg \in 0..(Cardinality(Functions(ops)) - 1)
        /\ Len(calls) < MaxCalls)
            => (/\ status' = "run"
                /\ pc' = EntryOf(reg) + 1
                /\ calls' = Push(calls, pc + 1))]_vars

----------------------------------------------------------------------------
\* The command line driver at work: main spawns cli and joins it

\* what the input file may hold once flattened: core programs that build,
\* that build_core rejects, that make it panic; standard programs likewise
CorePrograms == {<<>>, <<Op("Else", 0)>>, <<Op("End", 0), Op("End", 0)>>}
StdPrograms == {<<Op("Peek", 0)>>, <<Op("Peek", 0), Op("End", 0), Op("End", 0)>>}

Envs ==
    { [read |-> r, variant |-> v, ops |-> p, parse |-> pa, lir |-> l, asm |-> a,
       interp |-> i, build |-> b, write |-> w] :
        r \in {"ok", "err"}, v \in {"Core", "Std"}, p \in CorePrograms \cup StdPrograms,
        pa \in {"ok", "err"}, l \in {"ok", "err", "located"}, a \in {"ok", "err"},
        i \in {"ok", "err"}, b \in {"ok", "err"}, w \in {"ok", "err"} }

InitCli ==
    /\ \E s \in SourceTypes, t \in TargetTypes, d \in BOOLEAN :
          args = [source_type |-> s, target_type |-> t, debug |-> d]
    /\ \E o \in Envs :
          /\ (o.variant = "Core") = (o.ops \in CorePrograms)
          /\ env = o
    /\ stage = "read"
    /\ ret = Ok("unit")
    /\ fs = [files |-> {}, writes |-> 0]
    /\ log = <<>>
    /\ exit_status = -1
    /\ which = "core"
    /\ ops = <<>>
    /\ pos = 1
    /\ LoadedEmitter(NewEmitter)
    /\ IdleMachine
    /\ IdleRun

\* cli: match read_file(&args.input)
CliReadFile ==
    /\ stage = "read"
    /\ ret' = read_file(env)
    /\ IF read_file(env).ok
       THEN stage' = "compile" /\ log' = log
       ELSE stage' = "join" /\ log' = Append(log, "Error reading file")
    /\ UNCHANGED <<args, env, fs, exit_status, vmvars, emvars, runvars>>

\* cli: match compile(..) { Ok(_) => {}, Err(e) => error!(..) }
CliCompile ==
    /\ stage = "compile"
    /\ LET c == compile(args.source_type, args.target_type, args.debug, env, fs)
       IN  /\ ret' = c.ret
           /\ fs' = c.fs
           /\ log' = IF c.ret.ok \/ c.panicked THEN log ELSE Append(log, c.ret.val.kind)
    /\ stage' = "join"
    /\ UNCHANGED <<args, env, exit_status, vmvars, emvars, runvars>>

\* main: child.join().unwrap(), then the end of main
MainJoin ==
    /\ stage = "join"
    /\ exit_status' = IF ~ret.ok /\ ret.val.kind = "panic" THEN 101 ELSE 0
    /\ stage' = "exited"
    /\ UNCHANGED <<args, env, ret, fs, log, vmvars, emvars, runvars>>

NextCli ==
    \/ CliReadFile
    \/ CliCompile
    \/ MainJoin

SpecCli == InitCli /\ [][NextCli]_vars

\* compile has been called and is over
Compiled == stage \in {"join", "exited"} /\ env.read = "ok"
Failed(kinds) == ~ret.ok /\ ret.val.kind \in kinds

\* the stages before the variant of the program is looked at all succeed
ReachesVariant ==
    /\ env.parse = "ok"
    /\ args.source_type \in {"LowIR", "Sage"} => env.lir = "ok"
    /\ (args.target_type = "CoreVM" /\ args.source_type \in {"StdASM", "LowIR", "Sage"})
          => env.asm = "ok"

\* C11: downgrade rejection.  For every source kind, when the input compiles
\* to a Standard program and the target is core-vm or core-asm, compile
\* returns InvalidSource and write_file is not called.
C11_DowngradeRejected ==
    (/\ Compiled
     /\ args.target_type \in {"CoreVM", "CoreASM"}
     /\ env.variant = "Std"
     /\ ReachesVariant)
        => /\ Failed({"InvalidSource"})
           /\ fs = [files |-> {}, writes |-> 0]

\* a standard assembly file asked for as core VM code
C11_Witness ==
    /\ stage = "exited"
    /\ args.source_type = "StdASM"
    /\ args.target_type = "CoreVM"
    /\ env.variant = "Std"
    /\ ReachesVariant
    /\ Failed({"InvalidSource"})
    /\ fs.writes = 0

\* C12: exit status.  The process ends with status 0 when reading and
\* compiling succeed and with a non-zero status when either returns an error.
C12_ExitStatus ==
    stage = "exited" => ((exit_status = 0) <=> ret.ok)

----------------------------------------------------------------------------
\* Properties of the stack, pointer, boolean and arithmetic operations
\* (checked under SpecLoc).  Address(k) is cell k when the operation starts
\* with the data pointer on cell 0, which the assembler keeps.

\* the operation named name ran to its end from a start on cell 0, and L
\* designated a cell of the tape
Ran(name) ==
    /\ Finished
    /\ scen.name = name
    /\ start.ptr = 0
    /\ LCell \in Cells

\* the cells in keep aside, the tape is what it was at the start
Untouched(keep) == \A c \in Cells \ keep : tape[c] = start.tape[c]

\* C13: push.  After push(L) the SP cell holds an address one higher than
\* before, the cell it points to holds the value L designated when the push
\* started, and no other cell has changed.
C13_Push ==
    Ran("push") =>
        LET p == start.tape[0]
        IN  /\ tape[0] = p + 1
            /\ p + 1 \in Cells
            /\ p + 1 # 0 => tape[p + 1] = start.tape[LCell]
            /\ Untouched({0, p + 1})

\* C14: push/pop round trip.  After push(X) then pop(Y) the SP cell holds the
\* address it held before the push and Y holds the value X held before it.
C14_PushPop ==
    (Ran("push_pop") /\ SCell \in Cells) =>
        /\ tape[0] = start.tape[0]
        /\ tape[SCell] = start.tape[LCell]

\* C15: copy_address_to.  Started with the data pointer on cell 0, it leaves
\* in dst the absolute address of the cell L designates (k for Address(k),
\* base + d for Offset, the stored address for Indirect) and writes no cell
\* but dst: the cell L designates is written only if it is dst itself.
C15_CopyAddress ==
    (/\ Finished
     /\ scen.name = "copy_address_to"
     /\ start.ptr = 0
     /\ SCell \in Cells)
        => /\ tape[SCell] = LCell
           /\ Untouched({SCell})

\* the address one past the cell the stack pointer holds, stored through FP
C15_Witness ==
    /\ Finished
    /\ scen.name = "copy_address_to"
    /\ scen.l = Offset(Indirect(SP), 1)
    /\ scen.s = Indirect(FP)
    /\ start.tape = PointerTape
    /\ start.ptr = 0
    /\ tape[4] = 3
    /\ tape[3] = start.tape[3]

\* the address the pointer cell L held at the start, and the one it holds
\* after next(L, n)
Held == start.tape[LCell]
Stepped1 == Held + scen.n

\* C16, as stated: next(L, n) leaves p + n in L and prev(L, n) leaves p - n,
\* the cells at p and at p + n (p - n) are not written, prev after next puts
\* p back in L, and a store through Indirect(L) after next lands on p + n.
C16_NextPrevAsStated ==
    /\ Ran("next") =>
          /\ tape[LCell] = Held + scen.n
          /\ Held \in Cells => tape[Held] = start.tape[Held]
          /\ Held + scen.n \in Cells => tape[Held + scen.n] = start.tape[Held + scen.n]
    /\ Ran("prev") =>
          /\ tape[LCell] = Held - scen.n
          /\ Held \in Cells => tape[Held] = start.tape[Held]
          /\ Held - scen.n \in Cells => tape[Held - scen.n] = start.tape[Held - scen.n]
    /\ Ran("next_prev") => tape[LCell] = Held
    /\ Ran("next_store") => tape[Stepped1] = Stored

\* the path to the cell l designates reads cell c
RECURSIVE PathReads(_, _)
PathReads(l, c) ==
    CASE l.kind = "Address" -> FALSE
      [] l.kind = "Offset" -> PathReads(l.loc[1], c)
      [] l.kind = "Indirect" ->
            PathReads(l.loc[1], c) \/ CellOf(l.loc[1], start.tape) = c

\* C16: next(L, n) leaves p + n in L and prev(L, n) leaves p - n, and neither
\* writes any cell but L (so the cells at p and at p + n, p - n are written
\* only if one of them is L itself); when L is not reached through its own
\* cell, prev after next leaves the whole tape as it was, and a store through
\* Indirect(L) after next lands on cell p + n with nothing but L and that
\* cell changed.
C16_NextPrev ==
    /\ Ran("next") => (tape[LCell] = Held + scen.n /\ Untouched({LCell}))
    /\ Ran("prev") => (tape[LCell] = Held - scen.n /\ Untouched({LCell}))
    /\ (Ran("next_prev") /\ ~PathReads(scen.l, LCell)) => tape = start.tape
    /\ (Ran("next_store") /\ ~PathReads(scen.l, LCell)) =>
          /\ tape[Stepped1] = Stored
          /\ Untouched({LCell, Stepped1})
          /\ LCell # Stepped1 => tape[LCell] = Stepped1

\* the pointer in A stepped from cell 1 to cell 2 and a value stored there
C16_Witness ==
    /\ Ran("next_store")
    /\ scen.l = A
    /\ scen.n = 1
    /\ Held = 1
    /\ tape[3] = 2
    /\ tape[2] = Stored

\* the positions in prog of the ops that visit S (restore_from(S): the moves
\* to S, the Restore there, the moves back), inside the If/Else block
IfAt == CHOOSE i \in 1..Len(prog) : prog[i].op = "If"
SVisit ==
    LET r == restore_from(scen.s)
        at == {i \in (IfAt + 1)..(Len(prog) - Len(r) + 1) :
                  SubSeq(prog, i, i + Len(r) - 1) = r}
    IN  UNION {i..(i + Len(r) - 1) : i \in at}

\* C17: short-circuit.  In and(L, S) no op of the visit to S is executed
\* when L holds zero, and in or(L, S) none is executed when L holds a
\* non-zero value: the machine is at an op of the visit only on the other
\* branch.
C17_ShortCircuit ==
    (/\ status = "run"
     /\ scen.name \in {"and", "or"}
     /\ start.ptr = 0
     /\ LCell \in Cells
     /\ pc \in SVisit)
        => IF scen.name = "and" THEN start.tape[LCell] # 0 ELSE start.tape[LCell] = 0

\* and(A, B) with A zero and B non-zero has run to its end, on the Else
\* branch: the register was set to 0 and saved in A
C17_Witness ==
    /\ Ran("and")
    /\ scen.l = A
    /\ scen.s = B
    /\ start.tape[3] = 0
    /\ start.tape[4] = 1
    /\ SVisit # {}
    /\ reg = 0
    /\ tape[3] = 0

\* C18: boolean results.  After and(L, S) the cell L is non-zero iff L and S
\* both held non-zero values; after or(L, S) iff at least one did; after
\* not(L) it holds 1 if L held zero and 0 otherwise; S, when another cell
\* than L, keeps its value, and no other cell changes.
C18_BooleanResult ==
    LET a == start.tape[LCell]
        b == start.tape[SCell]
    IN  /\ (Ran("and") /\ SCell \in Cells) =>
              /\ (tape[LCell] # 0) <=> (a # 0 /\ b # 0)
              /\ Untouched({LCell})
        /\ (Ran("or") /\ SCell \in Cells) =>
              /\ (tape[LCell] # 0) <=> (a # 0 \/ b # 0)
              /\ Untouched({LCell})
        /\ Ran("not") =>
              /\ tape[LCell] = IF a = 0 THEN 1 ELSE 0
              /\ Untouched({LCell})

\* or(A, B) with A zero and B at the least integer: A ends non-zero, B kept
C18_Witness ==
    /\ Ran("or")
    /\ scen.l = A
    /\ scen.s = B
    /\ start.tape[3] = 0
    /\ start.tape[4] = MinInt
    /\ tape[3] # 0
    /\ tape[4] = MinInt

\* C19: arithmetic.  For add, sub, mul, div and rem on locations L and S
\* holding a and b, the run leaves a op b, wrapped on overflow, in L, leaves S
\* (when another cell) and every other cell unchanged; div and rem with
\* b = 0 end in an error instead of a result.
ArithOps == {"add", "sub", "mul", "div", "rem"}
OpOf(name) ==
    CASE name = "add" -> "Add"
      [] name = "sub" -> "Sub"
      [] name = "mul" -> "Mul"
      [] name = "div" -> "Div"
      [] name = "rem" -> "Rem"

\* every cell the pointer rests on along the path to l lies on the tape
RECURSIVE PathIn(_)
PathIn(l) ==
    /\ CellOf(l, start.tape) \in Cells
    /\ l.kind = "Address" \/ PathIn(l.loc[1])

C19_Arithmetic ==
    LET a == start.tape[LCell]
        b == start.tape[SCell]
    IN  ( /\ scen.name \in ArithOps
          /\ start.ptr = 0
          /\ PathIn(scen.l)
          /\ PathIn(scen.s)
          /\ status \in {"done", "fault"} ) =>
            IF scen.name \in {"div", "rem"} /\ b = 0
            THEN status = "fault"
            ELSE /\ status = "done"
                 /\ tape[LCell] = Wrap(ArithResult(OpOf(scen.name), a, b))
                 /\ Untouched({LCell})

\* the source is parsed on the way to the target: the assembly targets turn
\* a virtual machine source down before reading it
SourceParsed ==
    ~(args.target_type \in {"CoreASM", "StdASM"} /\ args.source_type \in {"CoreVM", "StdVM"})
\* parsing and LIR compilation have succeeded
FrontOk ==
    /\ SourceParsed
    /\ env.parse = "ok"
    /\ args.source_type \in {"LowIR", "Sage"} => env.lir = "ok"
\* compile_source_to_vm gets as far as prog.assemble
Assembles ==
    /\ FrontOk
    /\ args.target_type \notin {"CoreASM", "StdASM"}
    /\ \/ args.source_type \in {"StdASM", "LowIR", "Sage"}
       \/ args.source_type = "CoreASM" /\ env.variant = "Core"
\* compile_source_to_vm hands a program to the target
VmBuilt ==
    /\ FrontOk
    /\ args.target_type \notin {"CoreASM", "StdASM"}
    /\ args.source_type \in {"StdASM", "CoreASM", "LowIR", "Sage"} => env.asm = "ok"
    /\ args.source_type \in {"CoreVM", "CoreASM"} => env.variant = "Core"
\* the target's build returns an error for that program
BuildFails ==
    \/ args.target_type \in {"MyOS", "X86"} /\ env.build = "err"
    \/ /\ args.target_type = "C"
       /\ ~build_c(Program(env.variant, env)).panicked
       /\ ~build_c(Program(env.variant, env)).ret.ok
NothingWritten == fs.writes = 0 /\ fs.files = {}

\* C20: error propagation.  For every source kind and target, when parsing,
\* LIR compilation, assembling, interpreting or the target's build returns an
\* error, compile returns that error and write_file is not called, so no
\* file is created; with the run target no file is ever written.
C20_ErrorPropagation ==
    Compiled =>
        /\ (SourceParsed /\ env.parse = "err")
              => (Failed({"Parse"}) /\ NothingWritten)
        /\ (SourceParsed /\ env.parse = "ok" /\ args.source_type \in {"LowIR", "Sage"}
                /\ env.lir # "ok")
              => /\ Failed({"LirError", "WithSourceCode"})
                 /\ ret.val.kind = "WithSourceCode" => ret.val.of = "LirError"
                 /\ NothingWritten
        /\ (Assembles /\ env.asm = "err")
              => (Failed({"AsmError"}) /\ NothingWritten)
        /\ (VmBuilt /\ args.target_type = "Run" /\ env.interp = "err")
              => (Failed({"InterpreterError"}) /\ NothingWritten)
        /\ (VmBuilt /\ BuildFails)
              => (Failed({"BuildError"}) /\ NothingWritten)
        /\ args.target_type = "Run" => NothingWritten

\* build_core turns down a lone Else: BuildError, and no file written though
\* the write itself would have succeeded
C20_Witness ==
    /\ stage = "exited"
    /\ args.source_type = "CoreVM"
    /\ args.target_type = "C"
    /\ env.read = "ok"
    /\ env.parse = "ok"
    /\ env.write = "ok"
    /\ env.ops = <<Op("Else", 0)>>
    /\ Failed({"BuildError"})
    /\ NothingWritten

\* the input is a Core program and neither assembling nor the write fail
CoreInput ==
    /\ env.parse = "ok"
    /\ args.source_type \in {"LowIR", "Sage"} => env.lir = "ok"
    /\ env.variant = "Core"
    /\ env.asm = "ok"
    /\ env.write = "ok"
\* the file the standard targets write for the program of the input
StdOutput ==
    IF args.target_type = "StdVM"
    THEN [file |-> ".vm.sg", contents |-> Text("vm", Program(env.variant, env), args.debug)]
    ELSE [file |-> ".asm.sg", contents |-> Text("asm", Program(env.variant, env), args.debug)]
\* a core source whose parsed input is a Standard program is turned down
CoreSourceRejected ==
    (/\ args.source_type \in {"CoreVM", "CoreASM"}
     /\ env.parse = "ok"
     /\ env.variant = "Std")
        => Failed({"InvalidSource"})

\* C22 as stated: a core source holding a Standard program returns
\* InvalidSource for every target, and with target std-vm or std-asm a Core
\* program of any source kind compiles and is written out.
C22_AsStated ==
    Compiled =>
        /\ CoreSourceRejected
        /\ (args.target_type \in {"StdVM", "StdASM"} /\ CoreInput)
              => (ret.ok /\ fs.files = {StdOutput})

\* C22: a core source holding a Standard program returns InvalidSource for
\* every target; with target std-vm or std-asm a Core program compiles and is
\* written out, unless the source is a virtual machine program and the target
\* std-asm (then InvalidSource), and provided assembling and the write
\* return no error.
C22_CoreSource ==
    Compiled =>
        /\ CoreSourceRejected
        /\ (args.target_type \in {"StdVM", "StdASM"} /\ CoreInput /\ SourceParsed)
              => (ret.ok /\ fs.files = {StdOutput} /\ fs.writes = 1)
        /\ (args.target_type = "StdASM" /\ args.source_type \in {"CoreVM", "StdVM"})
              => (Failed({"InvalidSource"}) /\ NothingWritten)

\* a core-asm source holding a Standard program, aimed at the C target
C22_Witness ==
    /\ stage = "exited"
    /\ args.source_type = "CoreASM"
    /\ args.target_type = "C"
    /\ env.read = "ok"
    /\ env.parse = "ok"
    /\ env.variant = "Std"
    /\ Failed({"InvalidSource"})
    /\ NothingWritten

\* C23: with a core-vm or std-vm source and a core-asm or std-asm target,
\* compile returns InvalidSource and no file is written.
C23_NoLifting ==
    (/\ Compiled
     /\ args.source_type \in {"CoreVM", "StdVM"}
     /\ args.target_type \in {"CoreASM", "StdASM"})
        => (Failed({"InvalidSource"}) /\ NothingWritten)

\* a well-formed Core virtual machine program aimed at std-asm
C23_Witness ==
    /\ stage = "exited"
    /\ args.source_type = "CoreVM"
    /\ args.target_type = "StdASM"
    /\ env.read = "ok"
    /\ env.parse = "ok"
    /\ env.variant = "Core"
    /\ env.write = "ok"
    /\ Failed({"InvalidSource"})
    /\ NothingWritten

\* the cell of TMP
TmpCell == CellOf(TMP, start.tape)

\* C24: frame of the comparisons.  Each of the four comparison operations on
\* (L, S) writes no tape cell other than L and TMP, so S keeps its value
\* whenever it is another cell than L and TMP.
C24_ComparisonFrame ==
    (/\ Finished
     /\ scen.name \in Comparisons
     /\ start.ptr = 0
     /\ LCell \in Cells)
        => Untouched({LCell, TmpCell})

\* the number of Indirects on the path of a location: the Derefs to(l) emits
RECURSIVE Depth(_)
Depth(l) ==
    CASE l.kind = "Address" -> 0
      [] l.kind = "Offset" -> Depth(l.loc[1])
      [] l.kind = "Indirect" -> 1 + Depth(l.loc[1])

Max(x, y) == IF x >= y THEN x ELSE y

\* the deepest of the operand locations of the operation
OperandDepth ==
    IF scen.name = "next_store" THEN Depth(deref(scen.l))
    ELSE Max(Depth(scen.l), Depth(scen.s))

\* the deepest of the locations the operation visits: push and pop go
\* through Indirect(SP), next and prev through Indirect(L)
VisitedDepth ==
    CASE scen.name \in {"push", "pop", "push_pop"} -> Max(1, OperandDepth)
      [] scen.name \in {"next", "prev", "next_prev", "next_store"} -> Depth(scen.l) + 1
      [] OTHER -> OperandDepth

\* C25 as stated: while an operation runs the reference stack is never deeper
\* than at the start plus the largest Indirect nesting of its operands.
C25_AsStated == Len(refs) <= Len(start.refs) + OperandDepth

\* C25: while an operation runs the reference stack is never deeper than at
\* the start plus the largest Indirect nesting of the locations it visits:
\* its operands, Indirect(SP) for push and pop, Indirect(L) for next and prev;
\* started from an empty stack with that depth within the refs array, the run
\* never finds the array full.
C25_RefStackBound ==
    /\ Len(refs) <= Len(start.refs) + VisitedDepth
    /\ (start.refs = <<>> /\ VisitedDepth <= RefCap) => Len(refs) <= RefCap

\* both Indirects of a location nested two deep are on the reference stack
C25_Witness ==
    /\ status = "run"
    /\ scen.name = "add"
    /\ Depth(scen.l) = 2
    /\ start.refs = <<>>
    /\ Len(refs) = 2
    /\ prog[pc].op = "Restore"

\* C26: emitter totality.  For every op sequence, well nested or not,
\* build_core and build_std return Ok or Err without aborting: the indent
\* counter is never taken below zero (an End, an Else of an If in build_core
\* and any Else in build_std meet it at 1 or more) and a Function entry popped at an End finds the stack of
\* pending function numbers non-empty.
C26_EmitterTotality ==
    /\ out # "panic"
    /\ Taking({"End"}) => indent >= 1
    /\ (Taking({"Else"}) /\ (which = "std" \/ (matching # <<>> /\ Top(matching) = "If")))
          => indent >= 1
    /\ (Taking({"End"}) /\ matching # <<>> /\ Top(matching) = "Function") => funs # <<>>

\* what a sequence of emitted statements does: the statements that are not
\* empty, tabs aside, with ptr -= n read as ptr += -n
RECURSIVE Effect(_)
Effect(st) ==
    IF st = <<>> THEN <<>>
    ELSE LET s == st[1]
             e == IF s.c = "ptr -= {};" THEN [c |-> "ptr += {};", n |-> -(s.n)]
                  ELSE [c |-> s.c, n |-> s.n]
         IN  (IF s.c = "" THEN <<>> ELSE <<e>>) \o Effect(Tail(st))

\* a Standard program made only of Core ops
CoreOnly(p) == \A i \in 1..Len(p) : p[i].op \notin StandardOnly

\* C21: for a Standard program made only of Core ops, build_std emits
\* statements with the same effect as build_core emits for the same ops,
\* Get and Put included: each non-comment op has its C statement.
C21_StdAsCore ==
    (/\ which = "std"
     /\ out = "Ok"
     /\ CoreOnly(ops)
     /\ build_core(ops).out = "Ok")
        => Effect(result) = Effect(build_core(ops).result)

====
